---- MODULE Spec2Model ----
(***************************************************************************)
(* Model of the playlist store of the YouTube music player API             *)
(* (src/playlist_service.py) as driven by the FastAPI handlers of          *)
(* src/main.py.                                                            *)
(*                                                                         *)
(* self.playlists is a Python dict, which keeps insertion order: it is     *)
(* modelled as a sequence of entries [key, val].  playlists.json is        *)
(* modelled by what load_playlists can read back from it.  Timestamps      *)
(* (datetime.now().isoformat()) are readings of a wall clock, modelled as  *)
(* naturals; the clock is assumed not to step backwards.  uuid.uuid4() is  *)
(* modelled as an id that was never handed out before.                     *)
(***************************************************************************)
EXTENDS Integers, Sequences, FiniteSets, TLC

VARIABLES playlists, disk, clock, nextId, faults, last, reqs,
          resolve, play, temp_dir, downloads

(* The state of the YouTube side: stream resolution, the /play proxy and   *)
(* the download directory                                                  *)
media == <<resolve, play, temp_dir, downloads>>

(* The state of the playlist store and of its requests *)
store == <<playlists, disk, clock, nextId, faults, last, reqs>>

vars == <<playlists, disk, clock, nextId, faults, last, reqs,
          resolve, play, temp_dir, downloads>>

----------------------------------------------------------------------------
(* Bounds of the model *)

MaxClock == 4
MaxSongClock == 6
MaxOrderClock == 5
MaxMetaClock == 4
MaxMetaCreates == 3
MaxFormats == 2
MaxChunks == 3
MaxDownloads == 2
MaxRequests == 3
MaxCreates == 2
MaxFaults == 1

(* Python's None, for Optional[str] arguments and fields *)
None == "~None"

(* Inputs *)
SongIds == {"a", "b", "c"}
Titles == {"T"}

(* duration strings, as sequences of characters *)
D_0_30 == <<"0", ":", "3", "0">>
D_m1_00 == <<"-", "1", ":", "0", "0">>
D_1_02_03 == <<"1", ":", "0", "2", ":", "0", "3">>
D_Live == <<"L", "i", "v", "e">>

Durations == {D_0_30, D_m1_00, D_1_02_03, D_Live}

----------------------------------------------------------------------------
(* str.split(":") and int() *)

Digits == {"0", "1", "2", "3", "4", "5", "6", "7", "8", "9"}

DigitVal(c) ==
    CASE c = "0" -> 0 [] c = "1" -> 1 [] c = "2" -> 2 [] c = "3" -> 3
      [] c = "4" -> 4 [] c = "5" -> 5 [] c = "6" -> 6 [] c = "7" -> 7
      [] c = "8" -> 8 [] c = "9" -> 9

RECURSIVE SplitFrom(_, _, _)
(* s.split(sep): cur is the part collected so far *)
SplitFrom(s, sep, cur) ==
    IF s = <<>> THEN <<cur>>
    ELSE IF Head(s) = sep THEN <<cur>> \o SplitFrom(Tail(s), sep, <<>>)
    ELSE SplitFrom(Tail(s), sep, Append(cur, Head(s)))

Split(s, sep) == SplitFrom(s, sep, <<>>)

RECURSIVE DigitsVal(_, _)
DigitsVal(s, acc) ==
    IF s = <<>> THEN acc ELSE DigitsVal(Tail(s), acc * 10 + DigitVal(Head(s)))

AllDigits(s) == s # <<>> /\ \A i \in DOMAIN s : s[i] \in Digits

(* int(s): an optional sign followed by decimal digits; anything else      *)
(* raises ValueError (ok = FALSE)                                          *)
ParseInt(s) ==
    IF s # <<>> /\ Head(s) \in {"-", "+"}
    THEN IF AllDigits(Tail(s))
         THEN [ok |-> TRUE,
               val |-> IF Head(s) = "-" THEN 0 - DigitsVal(Tail(s), 0)
                       ELSE DigitsVal(Tail(s), 0)]
         ELSE [ok |-> FALSE, val |-> 0]
    ELSE IF AllDigits(s) THEN [ok |-> TRUE, val |-> DigitsVal(s, 0)]
         ELSE [ok |-> FALSE, val |-> 0]

(* The try block of add_song_to_playlist / remove_song_from_playlist:      *)
(* ok is FALSE when the aggregate is left alone (wrong number of parts, or *)
(* int() raised and the bare except swallowed it)                          *)
DurationSeconds(duration) ==
    LET duration_parts == Split(duration, ":")
    IN  IF Len(duration_parts) = 2
        THEN LET minutes == ParseInt(duration_parts[1])
                 seconds == ParseInt(duration_parts[2])
             IN  IF minutes.ok /\ seconds.ok
                 THEN [ok |-> TRUE, val |-> minutes.val * 60 + seconds.val]
                 ELSE [ok |-> FALSE, val |-> 0]
        ELSE [ok |-> FALSE, val |-> 0]

----------------------------------------------------------------------------
(* The dict self.playlists *)

Keys(d) == {d[i].key : i \in DOMAIN d}

DictHas(d, k) == k \in Keys(d)

DictIdx(d, k) == CHOOSE i \in DOMAIN d : d[i].key = k

DictGet(d, k) == d[DictIdx(d, k)].val

(* An assignment that reaches every entry: all keys share one value *)
DictSet_Shared(d, k, v) ==
    IF DictHas(d, k)
    THEN [n \in DOMAIN d |-> [key |-> d[n].key, val |-> v]]
    ELSE Append(d, [key |-> k, val |-> v])

(* d[k] = v: a present key keeps its position, a new one goes last *)
DictSet(d, k, v) ==
    IF DictHas(d, k)
    THEN [d EXCEPT ![DictIdx(d, k)] = [key |-> k, val |-> v]]
    ELSE Append(d, [key |-> k, val |-> v])

RemoveAt(s, i) == SubSeq(s, 1, i - 1) \o SubSeq(s, i + 1, Len(s))

(* A deletion that leaves the dict as it is *)
DictDel_Keep(d, k) == d

(* del d[k] *)
DictDel(d, k) == RemoveAt(d, DictIdx(d, k))

----------------------------------------------------------------------------
(* playlists.json *)

NoFile == [kind |-> "absent", doc |-> <<>>]
Truncated == [kind |-> "truncated", doc |-> <<>>]
JsonFile(d) == [kind |-> "json", doc |-> d]

(* load_playlists: {} when the file is absent or json.load raises *)
load_playlists(file) == IF file.kind = "json" THEN file.doc ELSE <<>>

SaveOutcomes == {"ok", "open_fails", "write_fails"}

(* A save that leaves the file as it is *)
save_playlists_Skip(file, d, outcome) == file

(* save_playlists: open(..., 'w') truncates the file before json.dump      *)
(* writes it; every exception is swallowed                                 *)
save_playlists(file, d, outcome) ==
    CASE outcome = "ok" -> JsonFile(d)
      [] outcome = "open_fails" -> file
      [] outcome = "write_fails" -> Truncated

----------------------------------------------------------------------------
(* uuid.uuid4() *)
uuid4 == nextId + 1

(* A dict without keys; dicts of the YouTube side are functions whose      *)
(* domain is the set of keys that are present                              *)
EmptyDict == [k \in {} |-> 0]

(* d.get(key, default) *)
Get(d, key, default) == IF key \in DOMAIN d THEN d[key] ELSE default

NoInfo == EmptyDict
NotResolved == [state |-> "pending", audio_url |-> None, best_audio |-> 0]
NoStream == [pc |-> "idle", status_code |-> 0, received |-> <<>>,
             held |-> <<>>, emitted |-> <<>>, requests |-> 0, error |-> ""]

(* Nothing was asked of the YouTube side yet *)
MediaIdle ==
    /\ resolve = [info |-> NoInfo, result |-> NotResolved]
    /\ play = NoStream
    /\ temp_dir = {}
    /\ downloads = <<>>

NoLast == [op |-> "init", pid |-> 0, sid |-> "", idx |-> <<>>,
           name |-> "", description |-> "", lim |-> 0, shuffle |-> FALSE,
           res |-> "", out |-> "none", val |-> <<>>]

InitStore ==
    /\ disk = NoFile
    /\ playlists = load_playlists(disk)
    /\ clock = 0
    /\ nextId = 0
    /\ faults = 0
    /\ last = NoLast
    /\ reqs = <<>>

Init == InitStore /\ MediaIdle

FaultsAfter(outcome) == IF outcome = "ok" THEN faults ELSE faults + 1

(* create_playlist: e is the time between the two datetime.now() calls *)
create_playlist(name, description, e, outcome) ==
    LET playlist_id == uuid4
        playlist == [id |-> playlist_id,
                     name |-> name,
                     description |-> description,
                     created_at |-> clock + 1,
                     updated_at |-> clock + 1 + e,
                     songs |-> <<>>,
                     total_duration |-> 0]
    IN  /\ playlists' = DictSet(playlists, playlist_id, playlist)
        /\ disk' = save_playlists(disk, playlists', outcome)
        /\ clock' = clock + 1 + e
        /\ nextId' = playlist_id
        /\ faults' = FaultsAfter(outcome)
        /\ last' = [NoLast EXCEPT !.op = "create", !.pid = playlist_id,
                                  !.res = "playlist", !.out = outcome]

(* A field that is only overwritten by a value that is truthy *)
UpdatedField_Truthy(old, supplied) ==
    IF supplied \notin {None, ""} THEN supplied ELSE old

(* if name is not None: playlist["name"] = name *)
UpdatedField(old, supplied) == IF supplied # None THEN supplied ELSE old

(* update_playlist *)
update_playlist(playlist_id, name, description, outcome) ==
    IF ~DictHas(playlists, playlist_id)
    THEN /\ last' = [NoLast EXCEPT !.op = "update", !.pid = playlist_id,
                                   !.name = name, !.description = description,
                                   !.res = "None"]
         /\ UNCHANGED <<playlists, disk, clock, nextId, faults>>
    ELSE LET old == DictGet(playlists, playlist_id)
             playlist ==
                 [old EXCEPT
                    !.name = UpdatedField(@, name),
                    !.description = UpdatedField(@, description),
                    !.updated_at = clock + 1]
         IN  /\ playlists' = DictSet(playlists, playlist_id, playlist)
             /\ disk' = save_playlists(disk, playlists', outcome)
             /\ clock' = clock + 1
             /\ faults' = FaultsAfter(outcome)
             /\ last' = [NoLast EXCEPT !.op = "update", !.pid = playlist_id,
                                       !.name = name,
                                       !.description = description,
                                       !.res = "playlist", !.out = outcome]
             /\ UNCHANGED nextId

(* A delete without the membership test: del raises KeyError for a        *)
(* missing id                                                              *)
delete_playlist_Unchecked(playlist_id, outcome) ==
    IF DictHas(playlists, playlist_id)
    THEN /\ playlists' = DictDel(playlists, playlist_id)
         /\ disk' = save_playlists(disk, playlists', outcome)
         /\ faults' = FaultsAfter(outcome)
         /\ last' = [NoLast EXCEPT !.op = "delete", !.pid = playlist_id,
                                   !.res = "True", !.out = outcome]
         /\ UNCHANGED <<clock, nextId>>
    ELSE /\ last' = [NoLast EXCEPT !.op = "delete", !.pid = playlist_id,
                                   !.res = "KeyError"]
         /\ UNCHANGED <<playlists, disk, clock, nextId, faults>>

(* delete_playlist *)
delete_playlist(playlist_id, outcome) ==
    IF DictHas(playlists, playlist_id)
    THEN /\ playlists' = DictDel(playlists, playlist_id)
         /\ disk' = save_playlists(disk, playlists', outcome)
         /\ faults' = FaultsAfter(outcome)
         /\ last' = [NoLast EXCEPT !.op = "delete", !.pid = playlist_id,
                                   !.res = "True", !.out = outcome]
         /\ UNCHANGED <<clock, nextId>>
    ELSE /\ last' = [NoLast EXCEPT !.op = "delete", !.pid = playlist_id,
                                   !.res = "False"]
         /\ UNCHANGED <<playlists, disk, clock, nextId, faults>>

SongIdsOf(songs) == {songs[i].id : i \in DOMAIN songs}

(* A duplicate check that never finds the song *)
SongInPlaylist_Never(songs, song_id) == FALSE

(* The loop over playlist["songs"] that looks for a song with the id *)
SongInPlaylist(songs, song_id) == song_id \in SongIdsOf(songs)

(* A fresh song put in front of the others *)
AddedSong_Front(playlist, song, t1, t2) ==
    LET song_data == [id |-> song.id, title |-> song.title,
                      duration |-> song.duration, added_at |-> t1]
        d == DurationSeconds(song.duration)
    IN  [playlist EXCEPT
           !.songs = <<song_data>> \o @,
           !.updated_at = t2,
           !.total_duration = IF d.ok THEN @ + d.val ELSE @]

(* The playlist record after a fresh song was appended at time t1          *)
(* (added_at) and t2 (updated_at)                                          *)
AddedSong(playlist, song, t1, t2) ==
    LET song_data == [id |-> song.id, title |-> song.title,
                      duration |-> song.duration, added_at |-> t1]
        d == DurationSeconds(song.duration)
    IN  [playlist EXCEPT
           !.songs = Append(@, song_data),
           !.updated_at = t2,
           !.total_duration = IF d.ok THEN @ + d.val ELSE @]

(* add_song_to_playlist: e is the time between the two datetime.now() calls *)
add_song_to_playlist(playlist_id, song, e, outcome) ==
    IF ~DictHas(playlists, playlist_id)
    THEN /\ last' = [NoLast EXCEPT !.op = "add", !.pid = playlist_id,
                                   !.sid = song.id, !.res = "None"]
         /\ UNCHANGED <<playlists, disk, clock, nextId, faults>>
    ELSE LET playlist == DictGet(playlists, playlist_id)
         IN  IF SongInPlaylist(playlist.songs, song.id)
             THEN /\ last' = [NoLast EXCEPT !.op = "add", !.pid = playlist_id,
                                            !.sid = song.id, !.res = "playlist"]
                  /\ UNCHANGED <<playlists, disk, clock, nextId, faults>>
             ELSE /\ playlists' = DictSet(playlists, playlist_id,
                        AddedSong(playlist, song, clock + 1, clock + 1 + e))
                  /\ disk' = save_playlists(disk, playlists', outcome)
                  /\ clock' = clock + 1 + e
                  /\ faults' = FaultsAfter(outcome)
                  /\ last' = [NoLast EXCEPT !.op = "add", !.pid = playlist_id,
                                            !.sid = song.id, !.res = "playlist",
                                            !.out = outcome]
                  /\ UNCHANGED nextId

(* The aggregate after the removal of a song of the given duration *)
DurationAfterRemove(total_duration, duration) ==
    LET d == DurationSeconds(duration)
    IN  IF d.ok
        THEN IF total_duration - d.val > 0 THEN total_duration - d.val ELSE 0
        ELSE total_duration

(* The playlist record after songs[i] was popped at time t *)
RemovedSong(playlist, i, t) ==
    [playlist EXCEPT
       !.songs = RemoveAt(@, i),
       !.updated_at = t,
       !.total_duration = DurationAfterRemove(@, playlist.songs[i].duration)]

(* The position enumerate() stops at: the first song with the id *)
FirstIndexOf(songs, song_id) ==
    CHOOSE i \in DOMAIN songs :
        /\ songs[i].id = song_id
        /\ \A j \in 1..(i - 1) : songs[j].id # song_id

(* A removal that reports a missing song as not found *)
SongNotFoundResult_None == "None"

(* What remove_song_from_playlist returns when no song has the id *)
SongNotFoundResult == "playlist"

(* remove_song_from_playlist *)
remove_song_from_playlist(playlist_id, song_id, outcome) ==
    IF ~DictHas(playlists, playlist_id)
    THEN /\ last' = [NoLast EXCEPT !.op = "remove", !.pid = playlist_id,
                                   !.sid = song_id, !.res = "None"]
         /\ UNCHANGED <<playlists, disk, clock, nextId, faults>>
    ELSE LET playlist == DictGet(playlists, playlist_id)
         IN  IF SongInPlaylist(playlist.songs, song_id)
             THEN /\ playlists' = DictSet(playlists, playlist_id,
                        RemovedSong(playlist,
                                    FirstIndexOf(playlist.songs, song_id),
                                    clock + 1))
                  /\ disk' = save_playlists(disk, playlists', outcome)
                  /\ clock' = clock + 1
                  /\ faults' = FaultsAfter(outcome)
                  /\ last' = [NoLast EXCEPT !.op = "remove", !.pid = playlist_id,
                                            !.sid = song_id, !.res = "playlist",
                                            !.out = outcome]
                  /\ UNCHANGED nextId
             ELSE /\ last' = [NoLast EXCEPT !.op = "remove", !.pid = playlist_id,
                                            !.sid = song_id,
                                            !.res = SongNotFoundResult]
                  /\ UNCHANGED <<playlists, disk, clock, nextId, faults>>

(* songs[i] of a Python list of length Len(songs): i counts from 0, a      *)
(* negative i counts from the end, anything else raises IndexError         *)
IndexInRange(songs, i) == 0 - Len(songs) <= i /\ i < Len(songs)

PyIndex(songs, i) == IF i >= 0 THEN songs[i + 1] ELSE songs[Len(songs) + i + 1]

(* A reordering that sends song k to position song_indices[k] instead *)
ReorderedSongs_Inverse(songs, song_indices) ==
    [k \in DOMAIN song_indices |->
        IF \E j \in DOMAIN song_indices : song_indices[j] = k - 1
        THEN songs[CHOOSE j \in DOMAIN song_indices : song_indices[j] = k - 1]
        ELSE PyIndex(songs, song_indices[k])]

(* [songs[i] for i in song_indices] *)
ReorderedSongs(songs, song_indices) ==
    [k \in DOMAIN song_indices |-> PyIndex(songs, song_indices[k])]

(* reorder_playlist *)
reorder_playlist(playlist_id, song_indices, outcome) ==
    IF ~DictHas(playlists, playlist_id)
    THEN /\ last' = [NoLast EXCEPT !.op = "reorder", !.pid = playlist_id,
                                   !.idx = song_indices, !.res = "None"]
         /\ UNCHANGED <<playlists, disk, clock, nextId, faults>>
    ELSE LET playlist == DictGet(playlists, playlist_id)
             songs == playlist.songs
         IN  IF \/ Len(song_indices) # Len(songs)
                \/ \E k \in DOMAIN song_indices :
                       ~IndexInRange(songs, song_indices[k])
             THEN /\ last' = [NoLast EXCEPT !.op = "reorder",
                                            !.pid = playlist_id,
                                            !.idx = song_indices, !.res = "None"]
                  /\ UNCHANGED <<playlists, disk, clock, nextId, faults>>
             ELSE LET reordered_songs == ReorderedSongs(songs, song_indices)
                  IN  /\ playlists' = DictSet(playlists, playlist_id,
                             [playlist EXCEPT !.songs = reordered_songs,
                                              !.updated_at = clock + 1])
                      /\ disk' = save_playlists(disk, playlists', outcome)
                      /\ clock' = clock + 1
                      /\ faults' = FaultsAfter(outcome)
                      /\ last' = [NoLast EXCEPT !.op = "reorder",
                                                !.pid = playlist_id,
                                                !.idx = song_indices,
                                                !.res = "playlist",
                                                !.out = outcome]
                      /\ UNCHANGED nextId

(* PlaylistService(): a new process loads the file *)
Restart ==
    /\ playlists' = load_playlists(disk)
    /\ last' = [NoLast EXCEPT !.op = "restart"]
    /\ UNCHANGED <<disk, clock, nextId, faults>>

----------------------------------------------------------------------------
(* Read operations *)

(* list(self.playlists.values()) *)
Values(d) == [n \in DOMAIN d |-> d[n].val]

(* get_playlist *)
get_playlist(playlist_id) ==
    /\ last' = [NoLast EXCEPT
          !.op = "get", !.pid = playlist_id,
          !.res = IF DictHas(playlists, playlist_id) THEN "playlist" ELSE "None",
          !.val = IF DictHas(playlists, playlist_id)
                  THEN <<DictGet(playlists, playlist_id)>> ELSE <<>>]
    /\ UNCHANGED <<playlists, disk, clock, nextId, faults>>

(* get_all_playlists *)
get_all_playlists ==
    /\ last' = [NoLast EXCEPT !.op = "list", !.res = "list",
                              !.val = Values(playlists)]
    /\ UNCHANGED <<playlists, disk, clock, nextId, faults>>

RECURSIVE InsertDescending(_, _)
(* x put behind every element of the descending sequence whose updated_at  *)
(* is not smaller: list.sort is stable, also with reverse=True             *)
InsertDescending(sorted, x) ==
    IF sorted = <<>> THEN <<x>>
    ELSE IF Head(sorted).updated_at >= x.updated_at
         THEN <<Head(sorted)>> \o InsertDescending(Tail(sorted), x)
         ELSE <<x>> \o sorted

RECURSIVE SortedByUpdatedAt(_)
(* all_playlists.sort(key=lambda x: x.get("updated_at", ""), reverse=True) *)
SortedByUpdatedAt(all_playlists) ==
    IF all_playlists = <<>> THEN <<>>
    ELSE InsertDescending(
             SortedByUpdatedAt(SubSeq(all_playlists, 1, Len(all_playlists) - 1)),
             all_playlists[Len(all_playlists)])

(* s[:limit] of a Python list: a negative limit counts from the end *)
SliceTo(s, limit) ==
    IF limit >= 0
    THEN SubSeq(s, 1, IF limit < Len(s) THEN limit ELSE Len(s))
    ELSE SubSeq(s, 1, IF Len(s) + limit > 0 THEN Len(s) + limit ELSE 0)

(* The list get_recent_playlists returns *)
RecentPlaylists(d, limit) == SliceTo(SortedByUpdatedAt(Values(d)), limit)

(* get_recent_playlists *)
get_recent_playlists(limit) ==
    /\ last' = [NoLast EXCEPT !.op = "recent", !.lim = limit, !.res = "list",
                              !.val = RecentPlaylists(playlists, limit)]
    /\ UNCHANGED <<playlists, disk, clock, nextId, faults>>

RECURSIVE SumOver(_, _)
(* sum(f(x) for x in xs), f given as a function *)
SumOver(xs, f) ==
    IF xs = <<>> THEN 0 ELSE f[Head(xs)] + SumOver(Tail(xs), f)

DigitChar(k) ==
    CASE k = 0 -> "0" [] k = 1 -> "1" [] k = 2 -> "2" [] k = 3 -> "3"
      [] k = 4 -> "4" [] k = 5 -> "5" [] k = 6 -> "6" [] k = 7 -> "7"
      [] k = 8 -> "8" [] k = 9 -> "9"

RECURSIVE DecimalDigits(_)
(* The decimal digits of a natural number *)
DecimalDigits(n) ==
    IF n < 10 THEN <<DigitChar(n)>>
    ELSE Append(DecimalDigits(n \div 10), DigitChar(n % 10))

(* f"{n:02d}": zero-padded to two characters, the sign counts as one *)
Format02d(n) ==
    IF n < 0 THEN <<"-">> \o DecimalDigits(0 - n)
    ELSE IF n < 10 THEN <<"0">> \o DecimalDigits(n)
    ELSE DecimalDigits(n)

(* The dict get_playlist_stats returns; // and % round towards minus       *)
(* infinity, as \div and % do                                              *)
PlaylistStats(d) ==
    LET all == Values(d)
        total_duration ==
            SumOver(all, [pl \in {all[n] : n \in DOMAIN all} |-> pl.total_duration])
        hours == total_duration \div 3600
        minutes == (total_duration % 3600) \div 60
        seconds == total_duration % 60
    IN  [total_playlists |-> Len(d),
         total_songs |->
            SumOver(all, [pl \in {all[n] : n \in DOMAIN all} |-> Len(pl.songs)]),
         total_duration_seconds |-> total_duration,
         total_duration_formatted |->
            Format02d(hours) \o <<":">> \o Format02d(minutes) \o <<":">>
              \o Format02d(seconds)]

(* get_playlist_stats *)
get_playlist_stats ==
    /\ last' = [NoLast EXCEPT !.op = "stats", !.res = "dict",
                              !.val = <<PlaylistStats(playlists)>>]
    /\ UNCHANGED <<playlists, disk, clock, nextId, faults>>

(* The orders random.shuffle may leave a list of n elements in, as lists   *)
(* of 0-based positions                                                    *)
ShuffleOrders(n) ==
    {order \in [1..n -> 0..(n - 1)] :
        \A j, k \in 1..n : j # k => order[j] # order[k]}

(* A play order built on the stored list itself *)
StoredAfterPlay_Alias(stored, played) == played

(* songs = playlist["songs"].copy(): the stored list is not the one that   *)
(* is shuffled                                                             *)
StoredAfterPlay(stored, played) == stored

(* play_playlist of main.py: order is the outcome of random.shuffle *)
play_playlist(playlist_id, shuffle, order) ==
    IF ~DictHas(playlists, playlist_id)
    THEN /\ last' = [NoLast EXCEPT !.op = "play", !.pid = playlist_id,
                                   !.shuffle = shuffle, !.res = "404"]
         /\ UNCHANGED <<playlists, disk, clock, nextId, faults>>
    ELSE LET playlist == DictGet(playlists, playlist_id)
             songs == IF shuffle THEN ReorderedSongs(playlist.songs, order)
                      ELSE playlist.songs
         IN  /\ playlists' = DictSet(playlists, playlist_id,
                   [playlist EXCEPT !.songs = StoredAfterPlay(@, songs)])
             /\ last' = [NoLast EXCEPT !.op = "play", !.pid = playlist_id,
                                       !.shuffle = shuffle, !.res = "dict",
                                       !.val = songs]
             /\ UNCHANGED <<disk, clock, nextId, faults>>

(* The characters of the names and descriptions the requests use *)
Characters(text) ==
    CASE text = "Mix" -> <<"M", "i", "x">>
      [] text = "Jam" -> <<"J", "a", "m">>
      [] text = "d" -> <<"d">>
      [] OTHER -> <<>>

(* str.lower, on the letters in use *)
LowerChar(c) ==
    CASE c = "M" -> "m" [] c = "J" -> "j" [] c = "D" -> "d" [] c = "I" -> "i"
      [] OTHER -> c

Lower(chars) == [k \in DOMAIN chars |-> LowerChar(chars[k])]

(* sub in text, for str *)
Contains(text, sub) ==
    \E k \in 0..(Len(text) - Len(sub)) :
        SubSeq(text, k + 1, k + Len(sub)) = sub

RECURSIVE SearchLoop(_, _, _)
(* The loop of search_playlists over the playlists that are left: the      *)
(* description is only looked at when the name does not match, and         *)
(* None.lower() raises AttributeError                                      *)
SearchLoop(rest, query, results) ==
    IF rest = <<>> THEN [res |-> "list", val |-> results]
    ELSE LET playlist == Head(rest)
         IN  IF Contains(Lower(Characters(playlist.name)), query)
             THEN SearchLoop(Tail(rest), query, Append(results, playlist))
             ELSE IF playlist.description = None
             THEN [res |-> "AttributeError", val |-> <<>>]
             ELSE IF Contains(Lower(Characters(playlist.description)), query)
             THEN SearchLoop(Tail(rest), query, Append(results, playlist))
             ELSE SearchLoop(Tail(rest), query, results)

(* search_playlists; query is the sequence of characters of the query *)
search_playlists(query) ==
    /\ last' = [NoLast EXCEPT
          !.op = "search", !.idx = query,
          !.res = SearchLoop(Values(playlists), Lower(query), <<>>).res,
          !.val = SearchLoop(Values(playlists), Lower(query), <<>>).val]
    /\ UNCHANGED <<playlists, disk, clock, nextId, faults>>

----------------------------------------------------------------------------
(* Requests *)

PlaylistIds == 1..MaxCreates

(* limit of GET /playlists/recent/{limit}: any int *)
RecentLimits == (0 - 1)..3

Songs == [id : SongIds, title : Titles, duration : Durations]

OrderSongs == [id : SongIds, title : Titles, duration : {D_0_30, D_Live}]

StoreSongIds == {"a", "b"}
StoreSongs == [id : StoreSongIds, title : Titles, duration : {D_0_30, D_m1_00}]

(* Index lists offered to reorder_playlist for a playlist of n songs: every *)
(* list of the right length over IdxVals, and one list too short and one   *)
(* too long                                                                *)
IdxVals == (0 - 2)..2

NumSongs(playlist_id) ==
    IF DictHas(playlists, playlist_id)
    THEN Len(DictGet(playlists, playlist_id).songs) ELSE 0

IndexLists(n) ==
    [1..n -> IdxVals] \cup {[k \in 1..(n + 1) |-> k - 1]}
                      \cup (IF n > 0 THEN {[k \in 1..(n - 1) |-> k - 1]} ELSE {})

(* Requests are issued while the clock is below its bound *)
Open(maxClock) == clock < maxClock

WithinBounds(maxClock, maxCreates, maxFaults) ==
    /\ clock' <= maxClock
    /\ nextId' <= maxCreates
    /\ faults' <= maxFaults

(* The whole store: every operation, every save outcome, process restarts *)
Next ==
    \/ /\ Open(MaxClock)
       /\ \E e \in 0..1, o \in SaveOutcomes :
              /\ create_playlist("Mix", "", e, o)
              /\ UNCHANGED <<reqs, media>>
              /\ WithinBounds(MaxClock, MaxCreates, MaxFaults)
    \/ /\ Open(MaxClock)
       /\ \E p \in PlaylistIds, n \in {None, "Jam"}, d \in {None, "d"},
             o \in SaveOutcomes :
              /\ update_playlist(p, n, d, o)
              /\ UNCHANGED <<reqs, media>>
              /\ WithinBounds(MaxClock, MaxCreates, MaxFaults)
    \/ /\ Open(MaxClock)
       /\ \E p \in PlaylistIds, o \in SaveOutcomes :
              /\ delete_playlist(p, o)
              /\ UNCHANGED <<reqs, media>>
              /\ WithinBounds(MaxClock, MaxCreates, MaxFaults)
    \/ /\ Open(MaxClock)
       /\ \E p \in PlaylistIds, s \in StoreSongs, o \in SaveOutcomes :
              /\ add_song_to_playlist(p, s, 0, o)
              /\ UNCHANGED <<reqs, media>>
              /\ WithinBounds(MaxClock, MaxCreates, MaxFaults)
    \/ /\ Open(MaxClock)
       /\ \E p \in PlaylistIds, s \in StoreSongIds, o \in SaveOutcomes :
              /\ remove_song_from_playlist(p, s, o)
              /\ UNCHANGED <<reqs, media>>
              /\ WithinBounds(MaxClock, MaxCreates, MaxFaults)
    \/ /\ Open(MaxClock)
       /\ \E p \in PlaylistIds, o \in SaveOutcomes :
            \E ix \in IndexLists(NumSongs(p)) :
              /\ reorder_playlist(p, ix, o)
              /\ UNCHANGED <<reqs, media>>
              /\ WithinBounds(MaxClock, MaxCreates, MaxFaults)
    \/ Restart /\ UNCHANGED <<reqs, media>>

Spec == Init /\ [][Next]_vars

(* The whole store with the lookup of one playlist *)
NextLookup ==
    \/ Next
    \/ \E p \in PlaylistIds : get_playlist(p) /\ UNCHANGED <<reqs, media>>

SpecLookup == Init /\ [][NextLookup]_vars

(* One playlist and its songs: create, add and remove, saves succeed *)
NextAddRemove ==
    \/ /\ Open(MaxSongClock)
       /\ \E e \in 0..1 :
              /\ create_playlist("Mix", "", e, "ok")
              /\ UNCHANGED <<reqs, media>>
              /\ WithinBounds(MaxSongClock, 1, 0)
    \/ /\ Open(MaxSongClock)
       /\ \E p \in {1}, s \in Songs, e \in 0..1 :
              /\ add_song_to_playlist(p, s, e, "ok")
              /\ UNCHANGED <<reqs, media>>
              /\ WithinBounds(MaxSongClock, 1, 0)
    \/ /\ Open(MaxSongClock)
       /\ \E p \in {1}, s \in SongIds :
              /\ remove_song_from_playlist(p, s, "ok")
              /\ UNCHANGED <<reqs, media>>
              /\ WithinBounds(MaxSongClock, 1, 0)

SpecAddRemove == Init /\ [][NextAddRemove]_vars

(* One playlist and its songs, with reordering *)
NextOrder ==
    \/ /\ Open(MaxOrderClock)
       /\ create_playlist("Mix", "", 0, "ok")
       /\ UNCHANGED <<reqs, media>>
       /\ WithinBounds(MaxOrderClock, 1, 0)
    \/ /\ Open(MaxOrderClock)
       /\ \E p \in {1}, s \in OrderSongs :
              /\ add_song_to_playlist(p, s, 0, "ok")
              /\ UNCHANGED <<reqs, media>>
              /\ WithinBounds(MaxOrderClock, 1, 0)
    \/ /\ Open(MaxOrderClock)
       /\ \E p \in {1}, s \in SongIds :
              /\ remove_song_from_playlist(p, s, "ok")
              /\ UNCHANGED <<reqs, media>>
              /\ WithinBounds(MaxOrderClock, 1, 0)
    \/ /\ Open(MaxOrderClock)
       /\ \E p \in {1} :
            \E ix \in IndexLists(NumSongs(p)) :
              /\ reorder_playlist(p, ix, "ok")
              /\ UNCHANGED <<reqs, media>>
              /\ WithinBounds(MaxOrderClock, 1, 0)

SpecOrder == Init /\ [][NextOrder]_vars

(* Playlists without songs: metadata, deletion and the read operations *)
MetaIds == 1..MaxMetaCreates

NextMeta ==
    \/ /\ Open(MaxMetaClock)
       /\ \E n \in {"Mix", ""}, d \in {"", None}, e \in 0..1 :
              /\ create_playlist(n, d, e, "ok")
              /\ UNCHANGED <<reqs, media>>
              /\ WithinBounds(MaxMetaClock, MaxMetaCreates, 0)
    \/ /\ Open(MaxMetaClock)
       /\ \E p \in MetaIds, n \in {None, "", "Jam"}, d \in {None, "", "d"} :
              /\ update_playlist(p, n, d, "ok")
              /\ UNCHANGED <<reqs, media>>
              /\ WithinBounds(MaxMetaClock, MaxMetaCreates, 0)
    \/ /\ Open(MaxMetaClock)
       /\ \E p \in MetaIds :
              /\ delete_playlist(p, "ok")
              /\ UNCHANGED <<reqs, media>>
              /\ WithinBounds(MaxMetaClock, MaxMetaCreates, 0)
    \/ \E p \in MetaIds : get_playlist(p) /\ UNCHANGED <<reqs, media>>
    \/ get_all_playlists /\ UNCHANGED <<reqs, media>>
    \/ \E limit \in RecentLimits : get_recent_playlists(limit) /\ UNCHANGED <<reqs, media>>

SpecMeta == Init /\ [][NextMeta]_vars

(* The queries of GET /playlists/search/{query} *)
Queries == { <<>>, <<"M">>, <<"a", "m">>, <<"D">>, <<"z">> }

(* Playlists without songs, with the search *)
NextSearch ==
    \/ NextMeta
    \/ \E query \in Queries : search_playlists(query) /\ UNCHANGED <<reqs, media>>

SpecSearch == Init /\ [][NextSearch]_vars

(* One playlist and its songs, with the statistics *)
NextStats ==
    \/ NextAddRemove
    \/ get_playlist_stats /\ UNCHANGED <<reqs, media>>

SpecStats == Init /\ [][NextStats]_vars

(* One playlist and its songs, with the play order *)
NextShuffle ==
    \/ NextAddRemove
    \/ \E p \in {1}, shuffle \in BOOLEAN :
         \E order \in ShuffleOrders(NumSongs(p)) :
             /\ shuffle \/ \A k \in DOMAIN order : order[k] = k - 1
             /\ play_playlist(p, shuffle, order)
             /\ UNCHANGED <<reqs, media>>

SpecShuffle == Init /\ [][NextShuffle]_vars

----------------------------------------------------------------------------
(* Stream resolution: YouTubeService.get_audio_stream_url applied to the   *)
(* info dict that yt-dlp's extract_info returned                           *)

(* A key of a dict that may be missing *)
Opt(present, key, value) == IF present THEN key :> value ELSE EmptyDict

(* The URL of the format at position n of info['formats'] *)
Urls == <<"u1", "u2", "u3", "u4">>

(* acodec and vcodec of a format: audio only, audio only with an           *)
(* undeclared acodec, audio and video, video only                          *)
Codecs ==
    { ("acodec" :> "opus") @@ ("vcodec" :> "none"),
      ("vcodec" :> "none"),
      ("acodec" :> "opus") @@ ("vcodec" :> "h264"),
      ("acodec" :> "none") @@ ("vcodec" :> "h264") }

(* abr and tbr of a format *)
Bitrates ==
    { EmptyDict,
      ("tbr" :> 200),
      ("abr" :> 0) @@ ("tbr" :> 200),
      ("abr" :> 128) @@ ("tbr" :> 200),
      ("abr" :> 160) }

(* A list of n formats: the codecs, the bitrates and the presence of a URL *)
(* of each                                                                 *)
FormatList(n, c, b, u) ==
    [k \in 1..n |-> c[k] @@ b[k] @@ Opt(u[k], "url", Urls[k])]

(* The values of info['url']; "absent" stands for a missing key *)
DirectUrls == {"absent", "", "direct"}

(* An info dict: a direct url or none, a list of formats or none *)
Info(d, has_formats, formats) ==
    Opt(d # "absent", "url", d) @@ Opt(has_formats, "formats", formats)

(* bool(value) of a str or None *)
Truthy(value) == value \notin {None, ""}

(* f.get('acodec') != 'none' and f.get('vcodec') == 'none' *)
IsAudioOnly(f) ==
    Get(f, "acodec", None) # "none" /\ Get(f, "vcodec", None) = "none"

(* The positions of audio_formats in info['formats'] *)
AudioFormats(formats) == {n \in DOMAIN formats : IsAudioOnly(formats[n])}

(* A sort key that prefers tbr *)
Bitrate_TbrFirst(x) ==
    IF Get(x, "tbr", 0) # 0 THEN Get(x, "tbr", 0)
    ELSE IF Get(x, "abr", 0) # 0 THEN Get(x, "abr", 0) ELSE 0

(* x.get('abr', 0) or x.get('tbr', 0) or 0 *)
Bitrate(x) ==
    IF Get(x, "abr", 0) # 0 THEN Get(x, "abr", 0)
    ELSE IF Get(x, "tbr", 0) # 0 THEN Get(x, "tbr", 0) ELSE 0

(* max(audio_formats, key=...): the first format of the largest key *)
BestAudio(formats) ==
    CHOOSE n \in AudioFormats(formats) :
        \A m \in AudioFormats(formats) :
            \/ Bitrate(formats[n]) > Bitrate(formats[m])
            \/ Bitrate(formats[n]) = Bitrate(formats[m]) /\ n <= m

(* The positions the fallback loop would stop at *)
WithAudioAndUrl(formats) ==
    {n \in DOMAIN formats :
        Get(formats[n], "acodec", None) # "none"
          /\ Truthy(Get(formats[n], "url", None))}

Least(S) == CHOOSE n \in S : \A m \in S : n <= m

(* audio_url and best_audio at the end of the if / elif *)
SelectedAudio(info) ==
    IF "url" \in DOMAIN info
    THEN [audio_url |-> info["url"], best_audio |-> 0]
    ELSE IF "formats" \in DOMAIN info
    THEN IF AudioFormats(info["formats"]) # {}
         THEN [audio_url |->
                   Get(info["formats"][BestAudio(info["formats"])], "url", None),
               best_audio |-> BestAudio(info["formats"])]
         ELSE IF WithAudioAndUrl(info["formats"]) # {}
         THEN [audio_url |->
                   info["formats"][Least(WithAudioAndUrl(info["formats"]))]["url"],
               best_audio |-> 0]
         ELSE [audio_url |-> None, best_audio |-> 0]
    ELSE [audio_url |-> None, best_audio |-> 0]

(* get_audio_stream_url, from the info dict to the return or the raise *)
get_audio_stream_url ==
    /\ resolve.result.state = "pending"
    /\ resolve' = [resolve EXCEPT !.result =
          [state |-> IF Truthy(SelectedAudio(resolve.info).audio_url)
                     THEN "returned" ELSE "raised",
           audio_url |-> SelectedAudio(resolve.info).audio_url,
           best_audio |-> SelectedAudio(resolve.info).best_audio]]
    /\ UNCHANGED <<store, play, temp_dir, downloads>>

InitResolve ==
    /\ InitStore
    /\ \E d \in DirectUrls, has_formats \in BOOLEAN, n \in 0..MaxFormats :
         \E c \in [1..n -> Codecs], b \in [1..n -> Bitrates],
            u \in [1..n -> BOOLEAN] :
             /\ has_formats \/ n = 0
             /\ resolve = [info |-> Info(d, has_formats, FormatList(n, c, b, u)),
                           result |-> NotResolved]
    /\ play = NoStream
    /\ temp_dir = {}
    /\ downloads = <<>>

NextResolve == get_audio_stream_url

SpecResolve == InitResolve /\ [][NextResolve]_vars

----------------------------------------------------------------------------
(* The /play proxy: play_audio and its generator generate(), one step per  *)
(* await or yield                                                          *)

(* response.status_code after redirects were followed *)
StatusCodes == {200, 203, 206, 403, 500}

(* The chunks aiter_bytes may hand over *)
Chunks == {"", "x", "y"}

(* A relay that yields every chunk *)
Relayed_Always(chunk) == TRUE

(* if chunk: yield chunk *)
Relayed(chunk) == chunk # ""

(* The exception leaves generate(): except Exception as e: print; raise *)
Raised(error) == [play EXCEPT !.pc = "failed", !.error = error]

(* play_audio up to client.stream('GET', audio_url): the stream is         *)
(* resolved, the response is handed to the server and generate() sends     *)
(* its one request to the origin; a failed resolution is the HTTP 500      *)
StartPlay(resolved) ==
    /\ play.pc = "idle"
    /\ play' = IF resolved
               THEN [play EXCEPT !.pc = "connecting", !.requests = @ + 1]
               ELSE Raised("resolve")
    /\ UNCHANGED <<store, resolve, temp_dir, downloads>>

(* The origin answers: if response.status_code == 200 ... else raise *)
Respond(status_code) ==
    /\ play.pc = "connecting"
    /\ play' = IF status_code = 200
               THEN [play EXCEPT !.pc = "streaming", !.status_code = status_code]
               ELSE [Raised("HTTP") EXCEPT !.status_code = status_code]
    /\ UNCHANGED <<store, resolve, temp_dir, downloads>>

(* async for chunk in response.aiter_bytes(...): the next chunk arrives    *)
(* and is yielded, or skipped when it is empty                             *)
Receive(chunk) ==
    /\ play.pc = "streaming"
    /\ play.held = <<>>
    /\ Len(play.received) < MaxChunks
    /\ play' = [play EXCEPT !.received = Append(@, chunk),
                            !.held = IF Relayed(chunk) THEN <<chunk>> ELSE <<>>]
    /\ UNCHANGED <<store, resolve, temp_dir, downloads>>

(* The server sends the yielded chunk to the caller and resumes generate() *)
Emit ==
    /\ play.pc = "streaming"
    /\ play.held # <<>>
    /\ play' = [play EXCEPT !.emitted = @ \o play.held, !.held = <<>>]
    /\ UNCHANGED <<store, resolve, temp_dir, downloads>>

(* The body ends: the async for and the generator finish *)
EndOfBody ==
    /\ play.pc = "streaming"
    /\ play.held = <<>>
    /\ play' = [play EXCEPT !.pc = "done"]
    /\ UNCHANGED <<store, resolve, temp_dir, downloads>>

(* The origin connection fails before the answer or while the body is read *)
Drop ==
    /\ play.pc \in {"connecting", "streaming"}
    /\ play.held = <<>>
    /\ play' = Raised("drop")
    /\ UNCHANGED <<store, resolve, temp_dir, downloads>>

NextPlay ==
    \/ \E resolved \in BOOLEAN : StartPlay(resolved)
    \/ \E status_code \in StatusCodes : Respond(status_code)
    \/ \E chunk \in Chunks : Receive(chunk)
    \/ Emit
    \/ EndOfBody
    \/ Drop

SpecPlay == Init /\ [][NextPlay]_vars

----------------------------------------------------------------------------
(* Downloads into the temp directory every request shares                  *)

VideoIds == { <<"a", "b">>, <<"a", "b", "c">>, <<"x">> }

Mp3 == <<".", "m", "p", "3">>

(* str.startswith and str.endswith *)
StartsWith(text, prefix) ==
    Len(text) >= Len(prefix) /\ SubSeq(text, 1, Len(prefix)) = prefix

EndsWith(text, suffix) ==
    Len(text) >= Len(suffix)
      /\ SubSeq(text, Len(text) - Len(suffix) + 1, Len(text)) = suffix

(* What yt-dlp and ffmpeg leave behind for the template                    *)
(* <temp_dir>/<video_id>.%(ext)s: the mp3, an mp3 under another name, no   *)
(* mp3 at all                                                              *)
DownloadOutcomes == {"mp3", "other_name", "no_mp3", "error"}

(* The file a download of video_id writes; by is the video the file was    *)
(* made for                                                                *)
Produced(video_id, outcome) ==
    [name |-> CASE outcome = "mp3" -> video_id \o Mp3
                [] outcome = "other_name" -> video_id \o <<"_", "1">> \o Mp3
                [] OTHER -> video_id \o <<".", "w", "e", "b", "m">>,
     by |-> video_id]

(* A file written into a directory replaces one of the same name *)
WriteFile(dir, file) == {f \in dir : f.name # file.name} \cup {file}

NoPath == [name |-> <<>>, by |-> <<>>]

(* download_audio up to the await of the executor *)
download_audio(video_id) ==
    /\ Len(downloads) < MaxDownloads
    /\ downloads' = Append(downloads,
          [video_id |-> video_id, pc |-> "downloading", file_path |-> NoPath])
    /\ UNCHANGED <<store, resolve, play, temp_dir>>

(* ydl.download([url]) in the executor thread *)
download(i, outcome) ==
    /\ i \in DOMAIN downloads
    /\ downloads[i].pc = "downloading"
    /\ IF outcome = "error"
       THEN /\ downloads' = [downloads EXCEPT ![i].pc = "failed"]
            /\ UNCHANGED temp_dir
       ELSE /\ temp_dir' = WriteFile(temp_dir,
                                     Produced(downloads[i].video_id, outcome))
            /\ downloads' = [downloads EXCEPT ![i].pc = "downloaded"]
    /\ UNCHANGED <<store, resolve, play>>

(* The files the loop over os.listdir may return *)
Matching(video_id) ==
    {f \in temp_dir : StartsWith(f.name, video_id) /\ EndsWith(f.name, Mp3)}

(* The rest of download_audio: the exact name, else the first match of     *)
(* os.listdir, which lists in arbitrary order, else the raise              *)
FindFile(i) ==
    /\ i \in DOMAIN downloads
    /\ downloads[i].pc = "downloaded"
    /\ LET mp3_file == downloads[i].video_id \o Mp3
       IN  IF \E f \in temp_dir : f.name = mp3_file
           THEN downloads' = [downloads EXCEPT
                    ![i].pc = "returned",
                    ![i].file_path = CHOOSE f \in temp_dir : f.name = mp3_file]
           ELSE IF Matching(downloads[i].video_id) # {}
           THEN \E f \in Matching(downloads[i].video_id) :
                    downloads' = [downloads EXCEPT ![i].pc = "returned",
                                                   ![i].file_path = f]
           ELSE downloads' = [downloads EXCEPT ![i].pc = "failed"]
    /\ UNCHANGED <<store, resolve, play, temp_dir>>

NextDownload ==
    \/ \E video_id \in VideoIds : download_audio(video_id)
    \/ \E i \in 1..MaxDownloads, outcome \in DownloadOutcomes :
           download(i, outcome)
    \/ \E i \in 1..MaxDownloads : FindFile(i)

SpecDownload == Init /\ [][NextDownload]_vars

----------------------------------------------------------------------------
(* Concurrent requests.  Every playlist endpoint of main.py is an          *)
(* `async def` coroutine that calls the synchronous PlaylistService: the   *)
(* one event loop of the uvicorn process runs the handlers, and a handler  *)
(* gives the loop away only where it awaits.  reqs is the sequence of      *)
(* requests the server has accepted; pc is the statement a handler is at.  *)
(* The handlers are modelled statement by statement; the clock is read     *)
(* once per handler.                                                       *)

NoSong == [id |-> "", title |-> "", duration |-> <<>>]

Request(op, pid, song, sid, idx, name, description) ==
    [op |-> op, pid |-> pid, song |-> song, sid |-> sid, idx |-> idx,
     name |-> name, description |-> description,
     pc |-> "pending", i |-> 0, tmp |-> <<>>, queued |-> 0]

ConcRequests ==
    { Request("create", 0, NoSong, "", <<>>, "Mix", ""),
      Request("update", 1, NoSong, "", <<>>, "Jam", None),
      Request("delete", 1, NoSong, "", <<>>, "", ""),
      Request("add", 1, [id |-> "a", title |-> "T", duration |-> D_0_30],
              "", <<>>, "", ""),
      Request("add", 1, [id |-> "b", title |-> "T", duration |-> D_0_30],
              "", <<>>, "", ""),
      Request("remove", 1, NoSong, "a", <<>>, "", ""),
      Request("reorder", 1, NoSong, "", <<1, 0>>, "", "") }

InHandler(j) == reqs[j].pc \notin {"pending", "done"}

(* Handlers that can be interrupted between any two statements, as they   *)
(* would be if they ran in a thread pool                                   *)
Preemptible_Threaded(pc) == TRUE

(* The statements at which a playlist handler awaits, and so lets another  *)
(* handler run: there is no await in any of them                           *)
Preemptible(pc) == FALSE

(* The event loop may run the next statement of request i *)
CanStep(i, op, pc) ==
    /\ i \in DOMAIN reqs
    /\ reqs[i].op = op
    /\ reqs[i].pc = pc
    /\ \A j \in DOMAIN reqs \ {i} : InHandler(j) => Preemptible(reqs[j].pc)

Goto(i, pc) == reqs' = [reqs EXCEPT ![i].pc = pc]

(* A request reaches the server *)
Arrive(r) ==
    /\ reqs' = Append(reqs,
          [r EXCEPT !.queued =
              Cardinality({j \in DOMAIN reqs : reqs[j].pc # "done"})])
    /\ UNCHANGED <<playlists, disk, clock, nextId, faults, last>>

(* create_playlist, lines 33-44 *)
CreateInsert(i) ==
    /\ CanStep(i, "create", "pending")
    /\ playlists' = DictSet(playlists, uuid4,
          [id |-> uuid4, name |-> reqs[i].name,
           description |-> reqs[i].description,
           created_at |-> clock + 1, updated_at |-> clock + 1,
           songs |-> <<>>, total_duration |-> 0])
    /\ nextId' = uuid4
    /\ clock' = clock + 1
    /\ reqs' = [reqs EXCEPT ![i].pc = "save", ![i].pid = uuid4]
    /\ UNCHANGED <<disk, faults, last>>

(* update_playlist, lines 58-66 *)
UpdateFields(i) ==
    /\ CanStep(i, "update", "pending")
    /\ IF ~DictHas(playlists, reqs[i].pid)
       THEN Goto(i, "done") /\ UNCHANGED <<playlists, clock>>
       ELSE /\ playlists' = DictSet(playlists, reqs[i].pid,
                  [DictGet(playlists, reqs[i].pid) EXCEPT
                     !.name = IF reqs[i].name # None THEN reqs[i].name ELSE @,
                     !.description = IF reqs[i].description # None
                                     THEN reqs[i].description ELSE @,
                     !.updated_at = clock + 1])
            /\ clock' = clock + 1
            /\ Goto(i, "save")
    /\ UNCHANGED <<disk, nextId, faults, last>>

(* delete_playlist, lines 73-74 *)
DeleteEntry(i) ==
    /\ CanStep(i, "delete", "pending")
    /\ IF DictHas(playlists, reqs[i].pid)
       THEN playlists' = DictDel(playlists, reqs[i].pid) /\ Goto(i, "save")
       ELSE Goto(i, "done") /\ UNCHANGED playlists
    /\ UNCHANGED <<disk, clock, nextId, faults, last>>

(* add_song_to_playlist, lines 81-89 *)
AddCheck(i) ==
    /\ CanStep(i, "add", "pending")
    /\ IF ~DictHas(playlists, reqs[i].pid)
       THEN Goto(i, "done")
       ELSE IF SongInPlaylist(DictGet(playlists, reqs[i].pid).songs,
                              reqs[i].song.id)
            THEN Goto(i, "done")
            ELSE Goto(i, "append")
    /\ UNCHANGED <<playlists, disk, clock, nextId, faults, last>>

(* add_song_to_playlist, lines 92-103; a playlist deleted in the meantime  *)
(* is no longer in the dict and the append goes to the orphaned object     *)
AddAppend(i) ==
    /\ CanStep(i, "add", "append")
    /\ IF DictHas(playlists, reqs[i].pid)
       THEN playlists' = DictSet(playlists, reqs[i].pid,
               [DictGet(playlists, reqs[i].pid) EXCEPT
                  !.songs = Append(@, [id |-> reqs[i].song.id,
                                       title |-> reqs[i].song.title,
                                       duration |-> reqs[i].song.duration,
                                       added_at |-> clock + 1]),
                  !.updated_at = clock + 1])
       ELSE UNCHANGED playlists
    /\ clock' = clock + 1
    /\ Goto(i, "duration")
    /\ UNCHANGED <<disk, nextId, faults, last>>

(* add_song_to_playlist, lines 106-113 *)
AddDuration(i) ==
    /\ CanStep(i, "add", "duration")
    /\ LET d == DurationSeconds(reqs[i].song.duration)
       IN  IF DictHas(playlists, reqs[i].pid) /\ d.ok
           THEN playlists' = DictSet(playlists, reqs[i].pid,
                   [DictGet(playlists, reqs[i].pid) EXCEPT
                      !.total_duration = @ + d.val])
           ELSE UNCHANGED playlists
    /\ Goto(i, "save")
    /\ UNCHANGED <<disk, clock, nextId, faults, last>>

(* remove_song_from_playlist, lines 120-127: the loop finds position i *)
RemoveFind(i) ==
    /\ CanStep(i, "remove", "pending")
    /\ IF ~DictHas(playlists, reqs[i].pid)
       THEN Goto(i, "done")
       ELSE IF SongInPlaylist(DictGet(playlists, reqs[i].pid).songs,
                              reqs[i].sid)
            THEN reqs' = [reqs EXCEPT
                    ![i].pc = "pop",
                    ![i].i = FirstIndexOf(DictGet(playlists, reqs[i].pid).songs,
                                          reqs[i].sid)]
            ELSE Goto(i, "done")
    /\ UNCHANGED <<playlists, disk, clock, nextId, faults, last>>

(* remove_song_from_playlist, lines 128-129; pop raises IndexError when    *)
(* the list has become shorter, which ends the request                     *)
RemovePop(i) ==
    /\ CanStep(i, "remove", "pop")
    /\ IF /\ DictHas(playlists, reqs[i].pid)
          /\ reqs[i].i <= Len(DictGet(playlists, reqs[i].pid).songs)
       THEN /\ playlists' = DictSet(playlists, reqs[i].pid,
                  [DictGet(playlists, reqs[i].pid) EXCEPT
                     !.songs = RemoveAt(@, reqs[i].i),
                     !.updated_at = clock + 1])
            /\ clock' = clock + 1
            /\ reqs' = [reqs EXCEPT
                  ![i].pc = "duration",
                  ![i].tmp = DictGet(playlists, reqs[i].pid)
                                .songs[reqs[i].i].duration]
       ELSE Goto(i, "done") /\ UNCHANGED <<playlists, clock>>
    /\ UNCHANGED <<disk, nextId, faults, last>>

(* remove_song_from_playlist, lines 132-139 *)
RemoveDuration(i) ==
    /\ CanStep(i, "remove", "duration")
    /\ IF DictHas(playlists, reqs[i].pid)
       THEN playlists' = DictSet(playlists, reqs[i].pid,
               [DictGet(playlists, reqs[i].pid) EXCEPT
                  !.total_duration = DurationAfterRemove(@, reqs[i].tmp)])
       ELSE UNCHANGED playlists
    /\ Goto(i, "save")
    /\ UNCHANGED <<disk, clock, nextId, faults, last>>

(* reorder_playlist, lines 148-155 *)
ReorderCheck(i) ==
    /\ CanStep(i, "reorder", "pending")
    /\ IF ~DictHas(playlists, reqs[i].pid)
       THEN Goto(i, "done")
       ELSE IF Len(reqs[i].idx) # Len(DictGet(playlists, reqs[i].pid).songs)
            THEN Goto(i, "done")
            ELSE Goto(i, "build")
    /\ UNCHANGED <<playlists, disk, clock, nextId, faults, last>>

(* reorder_playlist, line 159 *)
ReorderBuild(i) ==
    /\ CanStep(i, "reorder", "build")
    /\ IF /\ DictHas(playlists, reqs[i].pid)
          /\ \A k \in DOMAIN reqs[i].idx :
                 IndexInRange(DictGet(playlists, reqs[i].pid).songs,
                              reqs[i].idx[k])
       THEN reqs' = [reqs EXCEPT
               ![i].pc = "assign",
               ![i].tmp = ReorderedSongs(DictGet(playlists, reqs[i].pid).songs,
                                         reqs[i].idx)]
       ELSE Goto(i, "done")
    /\ UNCHANGED <<playlists, disk, clock, nextId, faults, last>>

(* reorder_playlist, lines 160-161 *)
ReorderAssign(i) ==
    /\ CanStep(i, "reorder", "assign")
    /\ IF DictHas(playlists, reqs[i].pid)
       THEN playlists' = DictSet(playlists, reqs[i].pid,
               [DictGet(playlists, reqs[i].pid) EXCEPT
                  !.songs = reqs[i].tmp, !.updated_at = clock + 1])
       ELSE UNCHANGED playlists
    /\ clock' = clock + 1
    /\ Goto(i, "save")
    /\ UNCHANGED <<disk, nextId, faults, last>>

(* self.save_playlists() and the return, the last statements of every      *)
(* mutating path                                                           *)
SaveAndReturn(i) ==
    /\ i \in DOMAIN reqs
    /\ CanStep(i, reqs[i].op, "save")
    /\ disk' = save_playlists(disk, playlists, "ok")
    /\ Goto(i, "done")
    /\ UNCHANGED <<playlists, clock, nextId, faults, last>>

NextConc ==
    \/ /\ Len(reqs) < MaxRequests
       /\ \E r \in ConcRequests : Arrive(r)
       /\ UNCHANGED media
    \/ \E i \in 1..MaxRequests : CreateInsert(i) /\ UNCHANGED media
    \/ \E i \in 1..MaxRequests : UpdateFields(i) /\ UNCHANGED media
    \/ \E i \in 1..MaxRequests : DeleteEntry(i) /\ UNCHANGED media
    \/ \E i \in 1..MaxRequests : AddCheck(i) /\ UNCHANGED media
    \/ \E i \in 1..MaxRequests : AddAppend(i) /\ UNCHANGED media
    \/ \E i \in 1..MaxRequests : AddDuration(i) /\ UNCHANGED media
    \/ \E i \in 1..MaxRequests : RemoveFind(i) /\ UNCHANGED media
    \/ \E i \in 1..MaxRequests : RemovePop(i) /\ UNCHANGED media
    \/ \E i \in 1..MaxRequests : RemoveDuration(i) /\ UNCHANGED media
    \/ \E i \in 1..MaxRequests : ReorderCheck(i) /\ UNCHANGED media
    \/ \E i \in 1..MaxRequests : ReorderBuild(i) /\ UNCHANGED media
    \/ \E i \in 1..MaxRequests : ReorderAssign(i) /\ UNCHANGED media
    \/ \E i \in 1..MaxRequests : SaveAndReturn(i) /\ UNCHANGED media

(* A process started on a file that holds one empty playlist *)
StoredPlaylists ==
    <<[key |-> 1,
       val |-> [id |-> 1, name |-> "Mix", description |-> "",
                created_at |-> 1, updated_at |-> 1,
                songs |-> <<>>, total_duration |-> 0]]>>

InitConc ==
    /\ disk = JsonFile(StoredPlaylists)
    /\ playlists = load_playlists(disk)
    /\ clock = 1
    /\ nextId = 1
    /\ faults = 0
    /\ last = NoLast
    /\ reqs = <<>>
    /\ MediaIdle

SpecConc == InitConc /\ [][NextConc]_vars

----------------------------------------------------------------------------
(* Properties *)

RECURSIVE SumOfDurations(_)
(* Sum of the parsed durations of a song sequence, 0 for an unparsable one *)
SumOfDurations(songs) ==
    IF songs = <<>> THEN 0
    ELSE (IF DurationSeconds(Head(songs).duration).ok
          THEN DurationSeconds(Head(songs).duration).val ELSE 0)
         + SumOfDurations(Tail(songs))

IsPermutation(song_indices, n) ==
    /\ Len(song_indices) = n
    /\ {song_indices[k] : k \in DOMAIN song_indices} = 0..(n - 1)

(* The step is a call of op on a playlist that is in the store *)
CallOn(op) == last'.op = op /\ DictHas(playlists, last'.pid)

Before == DictGet(playlists, last'.pid)
After == DictGet(playlists', last'.pid)

(* C1: after every add or remove on a playlist created by create_playlist, *)
(* total_duration is the sum of the parsed durations of the songs that are *)
(* in the playlist.                                                        *)
C1_TotalDurationIsSum ==
    \A i \in DOMAIN playlists :
        playlists[i].val.total_duration = SumOfDurations(playlists[i].val.songs)

(* C2: total_duration of every playlist is never negative. *)
C2_TotalDurationNonNegative ==
    \A i \in DOMAIN playlists : playlists[i].val.total_duration >= 0

(* C3: no playlist ever holds two songs with the same id. *)
C3_SongIdsUnique ==
    \A i \in DOMAIN playlists :
        \A j, k \in DOMAIN playlists[i].val.songs :
            j # k => playlists[i].val.songs[j].id # playlists[i].val.songs[k].id

(* C4: a reorder whose index list is not a permutation of 0..len-1 returns *)
(* None, leaves the store as it is and writes nothing.                     *)
C4_InvalidReorderRejected ==
    [][(CallOn("reorder") /\ ~IsPermutation(last'.idx, Len(Before.songs)))
         => /\ last'.res = "None"
            /\ playlists' = playlists
            /\ disk' = disk]_vars

(* C5: a reorder with a permutation p of 0..len-1 puts old[p[k]] at        *)
(* position k, keeps the songs and total_duration, and bumps updated_at.   *)
C5_ReorderAppliesPermutation ==
    [][(CallOn("reorder") /\ IsPermutation(last'.idx, Len(Before.songs)))
         => /\ last'.res = "playlist"
            /\ Len(After.songs) = Len(Before.songs)
            /\ \A k \in DOMAIN After.songs :
                   After.songs[k] = Before.songs[last'.idx[k] + 1]
            /\ {After.songs[k] : k \in DOMAIN After.songs}
                 = {Before.songs[k] : k \in DOMAIN Before.songs}
            /\ After.total_duration = Before.total_duration
            /\ After.updated_at > Before.updated_at
            /\ After.updated_at = clock']_vars

(* A rotation of three different songs was applied *)
C5_Witness ==
    /\ last.op = "reorder" /\ last.res = "playlist"
    /\ last.idx = <<1, 2, 0>>
    /\ DictHas(playlists, last.pid)
    /\ Cardinality(SongIdsOf(DictGet(playlists, last.pid).songs)) = 3

(* C6: adding a song whose id is in the playlist changes nothing (songs,   *)
(* total_duration, updated_at, file); adding one with a fresh id changes   *)
(* the song sequence and bumps updated_at.                                 *)
C6_DuplicateAddIsNoOp ==
    [][CallOn("add")
         => IF last'.sid \in SongIdsOf(Before.songs)
            THEN /\ last'.res = "playlist"
                 /\ playlists' = playlists
                 /\ disk' = disk
            ELSE /\ last'.res = "playlist"
                 /\ After.songs # Before.songs
                 /\ After.updated_at > Before.updated_at]_vars

(* A duplicate add came back while the file differs from the store, so a   *)
(* write would have shown                                                  *)
C6_Witness ==
    /\ last.op = "add" /\ last.res = "playlist" /\ last.out = "none"
    /\ DictHas(playlists, last.pid)
    /\ last.sid \in SongIdsOf(DictGet(playlists, last.pid).songs)
    /\ disk # JsonFile(playlists)

(* C7: removing a song id that is not in the playlist returns the playlist *)
(* unchanged; removing one that is in it takes out exactly one song with   *)
(* that id and keeps the order of the others.                              *)
C7_RemoveMissingIsLenient ==
    [][CallOn("remove")
         => IF last'.sid \in SongIdsOf(Before.songs)
            THEN /\ last'.res = "playlist"
                 /\ \E i \in DOMAIN Before.songs :
                        /\ Before.songs[i].id = last'.sid
                        /\ After.songs = RemoveAt(Before.songs, i)
            ELSE /\ last'.res = "playlist"
                 /\ playlists' = playlists
                 /\ disk' = disk]_vars

(* A remove of an absent song id came back from a playlist with songs *)
C7_Witness ==
    /\ last.op = "remove" /\ last.res = "playlist" /\ last.out = "none"
    /\ DictHas(playlists, last.pid)
    /\ DictGet(playlists, last.pid).songs # <<>>
    /\ last.sid \notin SongIdsOf(DictGet(playlists, last.pid).songs)

(* The store after request r ran alone from store d, at time 0 *)
RunAlone(d, r) ==
    CASE r.op = "create" ->
           DictSet(d, r.pid, [id |-> r.pid, name |-> r.name,
                              description |-> r.description,
                              created_at |-> 0, updated_at |-> 0,
                              songs |-> <<>>, total_duration |-> 0])
      [] r.op = "update" ->
           IF DictHas(d, r.pid)
           THEN DictSet(d, r.pid,
                   [DictGet(d, r.pid) EXCEPT
                      !.name = IF r.name # None THEN r.name ELSE @,
                      !.description = IF r.description # None
                                      THEN r.description ELSE @,
                      !.updated_at = 0])
           ELSE d
      [] r.op = "delete" -> IF DictHas(d, r.pid) THEN DictDel(d, r.pid) ELSE d
      [] r.op = "add" ->
           IF DictHas(d, r.pid) /\ r.song.id \notin SongIdsOf(DictGet(d, r.pid).songs)
           THEN DictSet(d, r.pid, AddedSong(DictGet(d, r.pid), r.song, 0, 0))
           ELSE d
      [] r.op = "remove" ->
           IF DictHas(d, r.pid) /\ r.sid \in SongIdsOf(DictGet(d, r.pid).songs)
           THEN DictSet(d, r.pid,
                   RemovedSong(DictGet(d, r.pid),
                               FirstIndexOf(DictGet(d, r.pid).songs, r.sid), 0))
           ELSE d
      [] r.op = "reorder" ->
           IF /\ DictHas(d, r.pid)
              /\ Len(r.idx) = Len(DictGet(d, r.pid).songs)
              /\ \A k \in DOMAIN r.idx :
                     IndexInRange(DictGet(d, r.pid).songs, r.idx[k])
           THEN DictSet(d, r.pid,
                   [DictGet(d, r.pid) EXCEPT
                      !.songs = ReorderedSongs(@, r.idx), !.updated_at = 0])
           ELSE d

RECURSIVE RunInOrder(_, _)
(* The store after the requests reqs[order[1]], reqs[order[2]], ... ran    *)
(* one after the other from store d                                        *)
RunInOrder(d, order) ==
    IF order = <<>> THEN d
    ELSE RunInOrder(RunAlone(d, reqs[Head(order)]), Tail(order))

(* A store without its timestamps *)
Untimed(d) ==
    [n \in DOMAIN d |->
        [key |-> d[n].key,
         val |-> [d[n].val EXCEPT
                    !.created_at = 0, !.updated_at = 0,
                    !.songs = [k \in DOMAIN @ |-> [@[k] EXCEPT !.added_at = 0]]]]]

Finished == {j \in DOMAIN reqs : reqs[j].pc = "done"}

Orders(S) ==
    {o \in [1..Cardinality(S) -> S] :
        \A j, k \in DOMAIN o : j # k => o[j] # o[k]}

(* C8: whenever no handler is in the middle of a request, the store is the *)
(* result of running the finished requests one after the other in some     *)
(* order, and the file holds that store: no update is lost.                *)
C8_NoLostUpdate ==
    (\A j \in DOMAIN reqs : ~InHandler(j))
      => /\ \E o \in Orders(Finished) :
                Untimed(playlists) = Untimed(RunInOrder(StoredPlaylists, o))
         /\ load_playlists(disk) = playlists

(* Three requests were outstanding at once and all have finished; the two  *)
(* songs were added and then swapped                                       *)
C8_Witness ==
    /\ Len(reqs) >= 3
    /\ \A j \in DOMAIN reqs : reqs[j].pc = "done"
    /\ \E j \in DOMAIN reqs : reqs[j].queued >= 2
    /\ DictHas(playlists, 1)
    /\ Len(DictGet(playlists, 1).songs) = 2
    /\ DictGet(playlists, 1).songs[1].id = "b"
    /\ DictGet(playlists, 1).songs[2].id = "a"
    /\ \E j \in DOMAIN reqs : reqs[j].op = "reorder"

(* C9: when a mutating operation has returned and its save succeeded, the  *)
(* file holds the whole in-memory collection: a restart loads exactly it.  *)
C9_WriteThrough ==
    last.out = "ok" => disk = JsonFile(playlists) /\ load_playlists(disk) = playlists

(* A save succeeded after an earlier one had failed *)
C9_Witness ==
    /\ last.out = "ok" /\ faults = 1
    /\ playlists # <<>>
    /\ \E i \in DOMAIN playlists : playlists[i].val.songs # <<>>

(* C10: a failed save leaves the persisted collection as it was, keeps the *)
(* in-memory mutation and returns the normal result.                       *)
C10_FailedSaveKeepsPersisted ==
    [][last'.out \in {"open_fails", "write_fails"}
         => /\ load_playlists(disk') = load_playlists(disk)
            /\ last'.res \in {"playlist", "True"}]_vars

(* C11: every create_playlist call adds exactly one playlist under a fresh *)
(* id, stored under that id, with no songs, total_duration 0 and           *)
(* created_at equal to updated_at; the earlier entries are kept.           *)
C11_CreateAddsFreshPlaylist ==
    [][last'.op = "create"
         => /\ last'.res = "playlist"
            /\ ~DictHas(playlists, last'.pid)
            /\ Len(playlists') = Len(playlists) + 1
            /\ SubSeq(playlists', 1, Len(playlists)) = playlists
            /\ DictHas(playlists', last'.pid)
            /\ After.id = last'.pid
            /\ After.songs = <<>>
            /\ After.total_duration = 0
            /\ After.created_at = After.updated_at]_vars

(* C12: update_playlist on a stored playlist sets name and description to  *)
(* the supplied values only, sets updated_at to a later time even when     *)
(* nothing is supplied, and leaves every other field and every other       *)
(* playlist as it was.                                                     *)
C12_UpdateChangesSuppliedOnly ==
    [][CallOn("update")
         => /\ last'.res = "playlist"
            /\ After = [Before EXCEPT
                 !.name = IF last'.name # None THEN last'.name ELSE @,
                 !.description =
                     IF last'.description # None THEN last'.description ELSE @,
                 !.updated_at = clock']
            /\ After.updated_at > Before.updated_at
            /\ Keys(playlists') = Keys(playlists)
            /\ \A k \in Keys(playlists) \ {last'.pid} :
                   DictGet(playlists', k) = DictGet(playlists, k)]_vars

(* An update that supplied the empty name and no description *)
C12_Witness ==
    /\ last.op = "update" /\ last.res = "playlist"
    /\ last.name = "" /\ last.description = None
    /\ DictHas(playlists, last.pid)
    /\ DictGet(playlists, last.pid).name = ""
    /\ DictGet(playlists, last.pid).description = "d"

(* What delete_playlist answers and leaves in memory: true exactly when    *)
(* the id was stored, and then get_playlist and get_all_playlists no       *)
(* longer have it, so that a second delete answers false.                  *)
DeleteRemoves ==
    /\ (last'.res = "True") <=> DictHas(playlists, last'.pid)
    /\ last'.res \in {"True", "False"}
    /\ ~DictHas(playlists', last'.pid)
    /\ \A n \in DOMAIN Values(playlists') : Values(playlists')[n].id # last'.pid
    /\ \A k \in Keys(playlists) \ {last'.pid} :
           DictHas(playlists', k) /\ DictGet(playlists', k) = DictGet(playlists, k)

(* C13 as stated: delete_playlist answers true exactly when the id was     *)
(* stored, and after a true answer the playlist is gone from the store     *)
(* and from the persisted collection.                                      *)
C13_DeleteRemovesEverywhere ==
    [][last'.op = "delete"
         => /\ DeleteRemoves
            /\ last'.res = "True"
                 => ~DictHas(load_playlists(disk'), last'.pid)]_vars

(* C13 amended: as above, the playlist being gone from the persisted       *)
(* collection whenever the save of the deletion succeeded.                 *)
C13_DeleteRemovesWhenSaved ==
    [][last'.op = "delete"
         => /\ DeleteRemoves
            /\ last'.out = "ok"
                 => ~DictHas(load_playlists(disk'), last'.pid)]_vars

(* A playlist was deleted and saved while another one stays *)
C13_Witness ==
    /\ last.op = "delete" /\ last.res = "True" /\ last.out = "ok"
    /\ playlists # <<>>
    /\ ~DictHas(playlists, last.pid)
    /\ load_playlists(disk) = playlists

IsDescending(result) ==
    \A m, n \in DOMAIN result :
        m < n => result[m].updated_at >= result[n].updated_at

(* C14: get_recent_playlists(limit) answers stored playlists in            *)
(* descending order of updated_at, at most limit of them (none for a       *)
(* limit below one), and all of them when limit is not below their number. *)
C14_RecentIsTruncatedToLimit ==
    last.op = "recent"
      => /\ IsDescending(last.val)
         /\ \A n \in DOMAIN last.val : last.val[n] \in
                {playlists[i].val : i \in DOMAIN playlists}
         /\ Len(last.val) <= (IF last.lim > 0 THEN last.lim ELSE 0)
         /\ last.lim >= Len(playlists) => Len(last.val) = Len(playlists)

RECURSIVE SumOfAllDurations(_)
SumOfAllDurations(d) ==
    IF d = <<>> THEN 0
    ELSE SumOfDurations(Head(d).val.songs) + SumOfAllDurations(Tail(d))

RECURSIVE CountOfAllSongs(_)
CountOfAllSongs(d) ==
    IF d = <<>> THEN 0 ELSE Len(Head(d).val.songs) + CountOfAllSongs(Tail(d))

(* text is zero-padded HH:MM:SS for the number of seconds total *)
IsClockText(text, total) ==
    LET parts == Split(text, ":")
    IN  /\ Len(parts) = 3
        /\ \A n \in 1..3 : AllDigits(parts[n]) /\ Len(parts[n]) >= 2
        /\ DigitsVal(parts[2], 0) < 60
        /\ DigitsVal(parts[3], 0) < 60
        /\ DigitsVal(parts[1], 0) * 3600 + DigitsVal(parts[2], 0) * 60
             + DigitsVal(parts[3], 0) = total

(* C15: get_playlist_stats reports the number of playlists, the number of  *)
(* songs, the sum of the parsable durations of the songs that are in the   *)
(* playlists, and that sum as zero-padded HH:MM:SS.                        *)
C15_StatsAreLiveTotals ==
    last.op = "stats"
      => LET stats == last.val[1]
         IN  /\ stats.total_playlists = Len(playlists)
             /\ stats.total_songs = CountOfAllSongs(playlists)
             /\ stats.total_duration_seconds = SumOfAllDurations(playlists)
             /\ IsClockText(stats.total_duration_formatted,
                            stats.total_duration_seconds)

(* The formats of the resolved metadata, none when the key is missing *)
FormatsOf(info) == Get(info, "formats", <<>>)

(* The formats with an audio codec and no video codec *)
AudioOnly(formats) ==
    {n \in DOMAIN formats :
        Get(formats[n], "acodec", None) # "none"
          /\ Get(formats[n], "vcodec", None) = "none"}

(* abr if the format declares it, else tbr if declared, else 0 *)
DeclaredBitrate(f) ==
    IF "abr" \in DOMAIN f THEN f["abr"]
    ELSE IF "tbr" \in DOMAIN f THEN f["tbr"] ELSE 0

(* abr if declared and not zero, else tbr if declared and not zero, else 0 *)
NonZeroBitrate(f) ==
    IF "abr" \in DOMAIN f /\ f["abr"] # 0 THEN f["abr"]
    ELSE IF "tbr" \in DOMAIN f /\ f["tbr"] # 0 THEN f["tbr"] ELSE 0

(* The call ran on metadata without a direct URL that has audio-only       *)
(* formats                                                                 *)
ResolvedFromAudioOnly ==
    /\ resolve.result.state # "pending"
    /\ "url" \notin DOMAIN resolve.info
    /\ AudioOnly(FormatsOf(resolve.info)) # {}

(* C16 as stated: without a direct URL and with audio-only formats, the    *)
(* format selected is an audio-only one whose bitrate, abr if declared     *)
(* else tbr if declared else 0, is the highest among the audio-only ones.  *)
C16_BestByDeclaredBitrate ==
    ResolvedFromAudioOnly
      => LET formats == FormatsOf(resolve.info)
             best == resolve.result.best_audio
         IN  /\ best \in AudioOnly(formats)
             /\ \A m \in AudioOnly(formats) :
                    DeclaredBitrate(formats[best]) >= DeclaredBitrate(formats[m])

(* C16 amended: the bitrate of a format is its abr if declared and not     *)
(* zero, else its tbr if declared and not zero, else 0; the format         *)
(* selected is an audio-only one of the highest such bitrate, and the      *)
(* call answers its URL or raises when it has none.                        *)
C16_BestByNonZeroBitrate ==
    ResolvedFromAudioOnly
      => LET formats == FormatsOf(resolve.info)
             best == resolve.result.best_audio
         IN  /\ best \in AudioOnly(formats)
             /\ \A m \in AudioOnly(formats) :
                    NonZeroBitrate(formats[best]) >= NonZeroBitrate(formats[m])
             /\ resolve.result.audio_url = Get(formats[best], "url", None)
             /\ resolve.result.state = "returned"
                  <=> "url" \in DOMAIN formats[best]

(* The second of two audio-only formats was selected for its abr of 160,   *)
(* the first one declaring abr 128 and tbr 200                             *)
C16_Witness ==
    /\ ResolvedFromAudioOnly
    /\ resolve.result.state = "returned"
    /\ AudioOnly(FormatsOf(resolve.info)) = {1, 2}
    /\ resolve.result.best_audio = 2
    /\ Get(FormatsOf(resolve.info)[1], "abr", 0) = 128
    /\ Get(FormatsOf(resolve.info)[1], "tbr", 0) = 200

(* The formats with an audio codec and a URL *)
PlayableFormats(formats) ==
    {n \in DOMAIN formats :
        Get(formats[n], "acodec", None) # "none" /\ "url" \in DOMAIN formats[n]}

(* The audio-only formats of the highest bitrate that have a URL *)
BestPlayable(formats) ==
    {n \in AudioOnly(formats) \cap PlayableFormats(formats) :
        \A m \in AudioOnly(formats) :
            NonZeroBitrate(formats[n]) >= NonZeroBitrate(formats[m])}

(* The URLs the priority allows: the direct URL, else the URL of a best    *)
(* audio-only format, else the URL of the first format with an audio       *)
(* codec and a URL                                                         *)
UrlsByPriority(info) ==
    LET formats == FormatsOf(info)
    IN  IF Get(info, "url", "") # ""
        THEN {info["url"]}
        ELSE IF BestPlayable(formats) # {}
        THEN {formats[n]["url"] : n \in BestPlayable(formats)}
        ELSE {formats[n]["url"] :
                n \in {k \in PlayableFormats(formats) :
                          \A m \in PlayableFormats(formats) : k <= m}}

(* C17: whenever the metadata has a non-empty direct URL or a format with  *)
(* an audio codec and a URL, get_audio_stream_url returns a non-empty      *)
(* audio_url, the one the priority direct URL, best audio-only format,     *)
(* first format with audio and a URL gives; it raises only without any.    *)
C17_FailsOnlyWithoutCandidate ==
    resolve.result.state # "pending"
      => IF UrlsByPriority(resolve.info) # {}
         THEN /\ resolve.result.state = "returned"
              /\ resolve.result.audio_url \in UrlsByPriority(resolve.info)
         ELSE resolve.result.state = "raised"

(* C18: when the origin answers with a status that is not a success, no    *)
(* chunk reaches the caller and the stream ends in an error; an answer     *)
(* with any status from 200 to 299 is relayed and not rejected.            *)
C18_OnlyNonSuccessIsRejected ==
    play.status_code # 0
      => IF play.status_code \in 200..299
         THEN ~(play.pc = "failed" /\ play.error = "HTTP")
         ELSE /\ play.pc = "failed" /\ play.error = "HTTP"
              /\ play.emitted = <<>> /\ play.held = <<>>

RECURSIVE NonEmptyChunks(_)
NonEmptyChunks(chunks) ==
    IF chunks = <<>> THEN <<>>
    ELSE (IF Head(chunks) # "" THEN <<Head(chunks)>> ELSE <<>>)
         \o NonEmptyChunks(Tail(chunks))

IsPrefix(a, b) == Len(a) <= Len(b) /\ SubSeq(b, 1, Len(a)) = a

(* C19: the chunks emitted, followed by the one chunk the proxy may hold,  *)
(* are the non-empty chunks received, in their order; what was emitted     *)
(* stays emitted; a failure ends the stream with an error and emits        *)
(* nothing more; the origin is asked once.                                 *)
C19_EmittedIsPrefixOfReceived ==
    [][/\ Len(play'.held) <= 1
       /\ play'.emitted \o play'.held = NonEmptyChunks(play'.received)
       /\ IsPrefix(play.emitted, play'.emitted)
       /\ play'.requests <= 1
       /\ play'.pc = "failed" => play'.error # "" /\ play'.held = <<>>
       /\ play.pc \in {"failed", "done"} => play' = play]_vars

(* The origin dropped after an empty chunk was skipped and a chunk was     *)
(* emitted                                                                 *)
C19_Witness ==
    /\ play.pc = "failed" /\ play.error = "drop"
    /\ play.requests = 1
    /\ play.emitted # <<>>
    /\ Len(play.received) > Len(play.emitted)

(* C20: the file download_audio returns for video_id starts with           *)
(* video_id, ends with .mp3 and was produced by a download of video_id,    *)
(* whatever other downloads wrote into the temp directory.                 *)
C20_ReturnsOwnFile ==
    \A i \in DOMAIN downloads :
        downloads[i].pc = "returned"
          => /\ StartsWith(downloads[i].file_path.name, downloads[i].video_id)
             /\ EndsWith(downloads[i].file_path.name, Mp3)
             /\ downloads[i].file_path.by = downloads[i].video_id

(* b holds the elements of a, each as often as a does *)
SameElements(a, b) ==
    /\ Len(a) = Len(b)
    /\ \E f \in [DOMAIN a -> DOMAIN a] :
           /\ \A j, k \in DOMAIN a : j # k => f[j] # f[k]
           /\ \A k \in DOMAIN a : b[k] = a[f[k]]

(* C21: the play order of a stored playlist holds the stored songs, each   *)
(* once, in the stored order when shuffle is false; the call leaves the    *)
(* store and the persisted collection as they were.                        *)
C21_PlayOrderIsReadOnly ==
    [][CallOn("play")
         => /\ last'.res = "dict"
            /\ SameElements(Before.songs, last'.val)
            /\ ~last'.shuffle => last'.val = Before.songs
            /\ playlists' = playlists
            /\ disk' = disk]_vars

(* A shuffled play order that differs from the stored order *)
C21_Witness ==
    /\ last.op = "play" /\ last.shuffle /\ last.res = "dict"
    /\ DictHas(playlists, last.pid)
    /\ Len(last.val) = 3
    /\ last.val # DictGet(playlists, last.pid).songs
    /\ disk = JsonFile(playlists)

(* The operations that take a playlist id *)
OnPlaylist == {"get", "update", "delete", "add", "remove", "reorder"}

(* C22: an operation on a playlist id that is not in the store answers     *)
(* None, or False for delete, and leaves the in-memory and the persisted   *)
(* collection as they were.                                                *)
C22_NotFoundIsSentinel ==
    [][last'.op \in OnPlaylist /\ ~DictHas(playlists, last'.pid)
         => /\ last'.res = IF last'.op = "delete" THEN "False" ELSE "None"
            /\ playlists' = playlists
            /\ disk' = disk
            /\ last'.out = "none"]_vars

(* A delete of an id that is not stored, next to a playlist that is *)
C22_Witness ==
    /\ last.op = "delete" /\ last.res = "False"
    /\ ~DictHas(playlists, last.pid)
    /\ playlists # <<>>
    /\ \E i \in DOMAIN playlists : playlists[i].val.songs # <<>>

(* C23: no create_playlist call adds a playlist whose name is empty.       *)
C23_EmptyNameIsNotCreated ==
    [][last'.op = "create" /\ Len(playlists') > Len(playlists)
         => After.name # ""]_vars

(* C24: an add of a song id that is not in the playlist appends one song:  *)
(* the earlier songs stay where they were, the new last song has the id    *)
(* and an added_at taken at the insertion, and updated_at moves forward,   *)
(* whether or not the duration parses.                                     *)
C24_AddAppendsOneSong ==
    [][CallOn("add") /\ last'.sid \notin SongIdsOf(Before.songs)
         => /\ last'.res = "playlist"
            /\ Len(After.songs) = Len(Before.songs) + 1
            /\ SubSeq(After.songs, 1, Len(Before.songs)) = Before.songs
            /\ After.songs[Len(After.songs)].id = last'.sid
            /\ After.songs[Len(After.songs)].added_at > clock
            /\ After.songs[Len(After.songs)].added_at <= clock'
            /\ After.updated_at > Before.updated_at
            /\ After.updated_at = clock']_vars

(* A song whose duration does not parse was added behind another song *)
C24_Witness ==
    /\ last.op = "add" /\ last.res = "playlist" /\ last.out = "ok"
    /\ DictHas(playlists, last.pid)
    /\ LET songs == DictGet(playlists, last.pid).songs
       IN  /\ Len(songs) >= 2
           /\ songs[Len(songs)].id = last.sid
           /\ ~DurationSeconds(songs[Len(songs)].duration).ok
           /\ DictGet(playlists, last.pid).updated_at >= songs[Len(songs)].added_at

(* The text holds the query, letter case aside; a description that is      *)
(* None holds no query                                                     *)
HoldsQuery(text, query) ==
    text # None /\ Contains(Lower(Characters(text)), Lower(query))

RECURSIVE Filtered(_, _)
(* The playlists of a list whose name or description holds the query *)
Filtered(all, query) ==
    IF all = <<>> THEN <<>>
    ELSE (IF HoldsQuery(Head(all).name, query)
             \/ HoldsQuery(Head(all).description, query)
          THEN <<Head(all)>> ELSE <<>>) \o Filtered(Tail(all), query)

(* C25: search_playlists answers without error, with exactly the stored    *)
(* playlists whose name or description holds the query as a                *)
(* case-insensitive substring, all of them for the empty query.            *)
C25_SearchAnswersMatches ==
    last.op = "search"
      => /\ last.res = "list"
         /\ last.val = Filtered(Values(playlists), last.idx)
         /\ last.idx = <<>> => last.val = Values(playlists)

Mutating == {"update", "add", "remove", "reorder", "delete"}

(* C26: update, add, remove, reorder and delete on one playlist leave      *)
(* every other stored playlist as it was, and no step changes the id or    *)
(* created_at of a playlist that stays in the store.                       *)
C26_OtherPlaylistsUntouched ==
    [][/\ last'.op \in Mutating
            => \A k \in Keys(playlists) \ {last'.pid} :
                   /\ DictHas(playlists', k)
                   /\ DictGet(playlists', k) = DictGet(playlists, k)
       /\ \A k \in Keys(playlists) \cap Keys(playlists') :
              /\ DictGet(playlists', k).id = DictGet(playlists, k).id
              /\ DictGet(playlists', k).created_at
                   = DictGet(playlists, k).created_at]_vars

(* A song was added to one of two playlists whose songs differ *)
C26_Witness ==
    /\ last.op = "add" /\ last.res = "playlist" /\ last.out = "ok"
    /\ Len(playlists) = 2
    /\ DictHas(playlists, last.pid)
    /\ \E k \in Keys(playlists) \ {last.pid} :
           /\ DictGet(playlists, k).songs # <<>>
           /\ DictGet(playlists, k).songs # DictGet(playlists, last.pid).songs

====
